---------------------------- MODULE Spec2Model ----------------------------
(***************************************************************************)
(* Model of classroom_scheduler.py: the batch pipeline of main()           *)
(*   DataLoader.load_data -> ScheduleOptimizer.__init__ -> optimize()      *)
(*   -> ScheduleAnalyzer.analyze_schedule                                  *)
(* Strings that the code takes apart (course codes, names) are sequences   *)
(* of one-character / one-token strings, so that split, startswith, "in"   *)
(* and concatenation are computed and not assumed.  A time range           *)
(* "start-end" is the pair <<start, end>> that time_range.split('-')       *)
(* yields.  Python's 0-based list index h is position h+1 of a sequence.   *)
(***************************************************************************)
EXTENDS Integers, Naturals, Sequences, FiniteSets, TLC

VARIABLES
    pc,          \* position of main(): start, loaded, ready, optimized, done
    csvCourses,  \* rows of the courses file (professors already split on ',')
    csvRooms,    \* rows of the rooms file
    courses,     \* List[Course] returned by load_data
    rooms,       \* List[Room]; floor_matches is each room's mutable dict
    status,      \* solver status of model.solve()
    x,           \* value(x[d,r]) after the solve, x[d][r] \in {0,1}
    schedule,    \* rows of the DataFrame returned by optimize()
    analysis     \* result of ScheduleAnalyzer.analyze_schedule

vars == <<pc, csvCourses, csvRooms, courses, rooms, status, x, schedule, analysis>>

-----------------------------------------------------------------------------
(* Bounds of the explored inputs *)
MaxCourses == 2
MaxRooms == 2
MaxLoadSize == 104

-----------------------------------------------------------------------------
(* Generic helpers *)
RECURSIVE SumSeq(_)
SumSeq(s) == IF s = <<>> THEN 0 ELSE Head(s) + SumSeq(Tail(s))

MinOf(S) == CHOOSE m \in S : \A n \in S : m <= n
MaxOf(S) == CHOOSE m \in S : \A n \in S : m >= n
Abs(n) == IF n < 0 THEN -n ELSE n

RECURSIVE Flatten(_)
Flatten(ss) == IF ss = <<>> THEN <<>> ELSE Head(ss) \o Flatten(Tail(ss))

RECURSIVE Unique(_)
\* Series.unique(): the distinct values in order of first appearance
Unique(s) ==
    IF s = <<>> THEN <<>>
    ELSE LET rest == Unique(SubSeq(s, 1, Len(s) - 1))
             last == s[Len(s)]
         IN  IF \E i \in 1..Len(rest) : rest[i] = last THEN rest
             ELSE Append(rest, last)

\* str.split('-')[0]
SplitFirst(s) ==
    LET dashes == {i \in 1..Len(s) : s[i] = "-"}
    IN  IF dashes = {} THEN s ELSE SubSeq(s, 1, MinOf(dashes) - 1)

\* sub in s
Contains(s, sub) ==
    \E i \in 1..(Len(s) - Len(sub) + 1) : SubSeq(s, i, i + Len(sub) - 1) = sub

\* s.startswith(p)
StartsWith(s, p) == Len(p) <= Len(s) /\ SubSeq(s, 1, Len(p)) = p

-----------------------------------------------------------------------------
(* RoomType *)
LAB == "lab"
CLASSROOM == "sala"

-----------------------------------------------------------------------------
(* TimeSlotManager *)
NumSlots == 48

DAY_TO_BASE_INDEX ==
    "Segunda" :> 0 @@ "Terça" :> 8 @@ "Quarta" :> 16 @@
    "Quinta" :> 24 @@ "Sexta" :> 32 @@ "Sábado" :> 40

TIME_TO_INDEX ==
    "17h20" :> 0 @@ "18h10" :> 1 @@ "19h00" :> 2 @@ "19h50" :> 3 @@
    "20h50" :> 4 @@ "21h40" :> 5 @@ "22h30" :> 6

\* dict.get(key, 0)
GetOrZero(dict, key) == IF key \in DOMAIN dict THEN dict[key] ELSE 0

StartIdx(day, time_range) ==
    GetOrZero(DAY_TO_BASE_INDEX, day) + GetOrZero(TIME_TO_INDEX, time_range[1])

SlotsNeededByStart(time_range) ==
    IF time_range[1] = "19h00" THEN 4 ELSE 2

SlotsNeeded(time_range) ==
    IF time_range = <<"19h00", "22h30">> THEN 4 ELSE 2

create_time_slots(day, time_range) ==
    LET start_idx == StartIdx(day, time_range)
        slots_needed == SlotsNeeded(time_range)
    IN  [p \in 1..NumSlots |->
            IF /\ (p - 1) \in start_idx..(start_idx + slots_needed - 1)
               /\ (p - 1) < NumSlots
            THEN 1 ELSE 0]

has_conflict(slots1, slots2) ==
    \E p \in 1..MinOf({Len(slots1), Len(slots2)}) :
        slots1[p] # 0 /\ slots2[p] # 0

-----------------------------------------------------------------------------
(* Course, Room *)
NewCourse(name, code, day, time, size, lab, floor, weight, auth, profs, split) ==
    [name |-> name, course_code |-> code, day |-> day, time |-> time,
     class_size |-> size, requires_lab |-> lab, preferred_floor |-> floor,
     floor_preference_weight |-> weight,
     time_slots |-> create_time_slots(day, time),
     split_authorized |-> auth, assigned_professors |-> profs,
     is_split |-> split]

SPLIT_MIN_SIZE == 50

can_be_split(course) ==
    /\ course.class_size > SPLIT_MIN_SIZE
    /\ course.split_authorized
    /\ Len(course.assigned_professors) >= 2

\* floor_matches starts as the empty dict
NewRoom(row) ==
    [name |-> row.name, room_type |-> row.type, capacity |-> row.capacity,
     floor |-> row.floor, is_blocked |-> row.is_blocked,
     floor_matches |-> <<>>]

-----------------------------------------------------------------------------
(* DataLoader.load_data *)
CourseOfRow(row) ==
    NewCourse(row.name, row.course, row.day, row.time, row.class_size,
              row.req = 1, row.pref_floor, row.course_floor_pref,
              row.split_authorized, row.assigned_professors, FALSE)

SectionBSizeHalf(course) == course.class_size \div 2

SectionBSize(course) == course.class_size - (course.class_size \div 2)

SplitA(course) ==
    NewCourse(course.name \o <<" (Turma A)">>, course.course_code \o <<"-", "A">>,
              course.day, course.time, course.class_size \div 2,
              course.requires_lab, course.preferred_floor,
              course.floor_preference_weight, TRUE,
              <<course.assigned_professors[1]>>, TRUE)

SplitB(course) ==
    NewCourse(course.name \o <<" (Turma B)">>, course.course_code \o <<"-", "B">>,
              course.day, course.time, SectionBSize(course),
              course.requires_lab, course.preferred_floor,
              course.floor_preference_weight, TRUE,
              <<course.assigned_professors[2]>>, TRUE)

\* what one row of the courses file adds to the list
LoadRow(row) ==
    LET course == CourseOfRow(row)
    IN  IF can_be_split(course) THEN <<SplitA(course), SplitB(course)>>
        ELSE <<course>>

load_courses(rows) == Flatten([i \in 1..Len(rows) |-> LoadRow(rows[i])])

load_rooms(rows) == [i \in 1..Len(rows) |-> NewRoom(rows[i])]


-----------------------------------------------------------------------------
(* ScheduleOptimizer.__init__ *)
W_FLOOR_PREF == 10
W_LAB_USAGE == 5
W_WRONG_ROOM == 20
W_DISTANCE == 2
W_CAPACITY_PENALTY == 15

\* the value the loops of _calculate_floor_matches leave under each key of
\* room.floor_matches: the dict is keyed by course.name, so the last course
\* of the list that carries a name decides the entry
floor_matches_of(room, cs) ==
    [n \in {cs[i].name : i \in 1..Len(cs)} |->
        LET course == cs[MaxOf({i \in 1..Len(cs) : cs[i].name = n})]
        IN  IF course.preferred_floor <= 0 THEN 1
            ELSE IF room.floor = course.preferred_floor THEN 1 ELSE 0]

calculate_floor_matches(rs, cs) ==
    [r \in 1..Len(rs) |->
        [rs[r] EXCEPT !.floor_matches = floor_matches_of(rs[r], cs)]]

-----------------------------------------------------------------------------
(* ScheduleOptimizer._create_constraints, over a candidate value xx of the *)
(* binary variables x: xx[d][r] is x[d,r].  The slack variables y, z and   *)
(* the indicators w_lab, w_sala are given by the rows that bound them.     *)
NC == Len(courses)
NR == Len(rooms)
BIG_M == 9999

LabRooms == {r \in 1..NR : rooms[r].room_type = LAB}

RECURSIVE SumOver(_, _, _)
\* lpSum of f[i] for i in 1..n
SumOver(f, i, n) == IF i > n THEN 0 ELSE f[i] + SumOver(f, i + 1, n)

AtMostOneRoom(row) == SumOver(row, 1, NR) <= 1

\* each course must be assigned to exactly one room
ExactlyOneRoom(row) == SumOver(row, 1, NR) = 1

NoSlotLimit(xx) == TRUE

\* time slot conflicts: one row per room and slot index
NoSlotConflict(xx) ==
    \A r \in 1..NR : \A h \in 1..NumSlots :
        SumOver([d \in 1..NC |-> xx[d][r] * courses[d].time_slots[h]], 1, NC) <= 1

\* room type rows: w_lab[d] == 1 - sum over lab rooms, w_sala[d] == that sum
LabSum(row) == SumOver([r \in 1..NR |-> IF r \in LabRooms THEN row[r] ELSE 0], 1, NR)
w_lab(xx, d) == IF courses[d].requires_lab THEN 1 - LabSum(xx[d]) ELSE 0
w_sala(xx, d) == IF courses[d].requires_lab THEN 0 ELSE LabSum(xx[d])
RoomTypeRows(d, row) ==
    IF courses[d].requires_lab THEN (1 - LabSum(row)) \in {0, 1}
    ELSE LabSum(row) \in {0, 1}

\* distance rows y[d] >= x[d,r] * abs(preferred_floor - floor): least y[d]
y_min(xx, d) ==
    MaxOf({0} \cup {xx[d][r] * Abs(courses[d].preferred_floor - rooms[r].floor) :
                       r \in 1..NR})

\* capacity rows z[d,r] >= x[d,r] * (class_size - capacity): least z[d,r]
z_min(xx, d, r) ==
    MaxOf({0, xx[d][r] * (courses[d].class_size - rooms[r].capacity)})

CeilingDropped(d, r, xdr) == TRUE

\* class_size <= capacity * 1.2 + (1 - x[d,r]) * 9999, in tenths
CapacityCeiling(d, r, xdr) ==
    courses[d].class_size * 10 <=
        rooms[r].capacity * 12 + (1 - xdr) * BIG_M * 10

BlockedAllowed(xx) == TRUE

\* blocked rooms take no course
BlockedRoomsUnused(xx) ==
    \A r \in {b \in 1..NR : rooms[b].is_blocked} :
        SumOver([d \in 1..NC |-> xx[d][r]], 1, NC) = 0

\* the rows that mention only the variables of course d
RowFeasible(d, row) ==
    /\ ExactlyOneRoom(row)
    /\ RoomTypeRows(d, row)
    /\ \A r \in 1..NR : CapacityCeiling(d, r, row[r])

Feasible(xx) == NoSlotConflict(xx) /\ BlockedRoomsUnused(xx)

-----------------------------------------------------------------------------
(* ScheduleOptimizer._create_objective_function *)
floor_match(r, d) == rooms[r].floor_matches[courses[d].name]

FloorPrefTerm(xx, d) ==
    SumOver([r \in 1..NR |->
        xx[d][r] * courses[d].floor_preference_weight * (1 - floor_match(r, d))],
        1, NR)

Objective(xx) ==
    W_FLOOR_PREF * SumOver([d \in 1..NC |-> FloorPrefTerm(xx, d)], 1, NC)
    + W_LAB_USAGE * SumOver([d \in 1..NC |-> w_sala(xx, d)], 1, NC)
    + W_WRONG_ROOM * SumOver([d \in 1..NC |-> w_lab(xx, d)], 1, NC)
    + W_DISTANCE * SumOver([d \in 1..NC |-> y_min(xx, d)], 1, NC)
    + W_CAPACITY_PENALTY *
        SumOver([d \in 1..NC |->
                    SumOver([r \in 1..NR |-> z_min(xx, d, r)], 1, NR)], 1, NC)

-----------------------------------------------------------------------------
(* model.solve(): the external solver.  Every binary matrix that meets all *)
(* rows is a feasible point; the solver returns status Optimal with one of *)
(* the feasible points of least objective, or Infeasible when there is     *)
(* none (the objective is bounded below by 0, so Unbounded cannot occur).   *)
RECURSIVE RowProduct(_)
\* the matrices whose first n rows each meet the rows of their own course
RowProduct(n) ==
    IF n = 0 THEN {<<>>}
    ELSE {Append(m, row) : m \in RowProduct(n - 1),
                           row \in {rw \in [1..NR -> {0, 1}] : RowFeasible(n, rw)}}

FeasibleSet == {xx \in RowProduct(NC) : Feasible(xx)}

OptimalSet ==
    LET F == FeasibleSet
    IN  IF F = {} THEN {}
        ELSE LET best == MinOf({Objective(xx) : xx \in F})
             IN  {xx \in F : Objective(xx) = best}

-----------------------------------------------------------------------------
(* ScheduleOptimizer._format_results.  The column 'Ocupação (%)' is a       *)
(* rounded float and is left out of the row.                               *)
TipoSala(room_type) == IF room_type = LAB THEN "LAB" ELSE "SALA"

ResultRow(d, r) ==
    [Curso |-> courses[d].course_code,
     Disciplina |-> courses[d].name,
     Sala |-> rooms[r].name,
     Dia |-> courses[d].day,
     Horario |-> courses[d].time,
     Andar |-> rooms[r].floor,
     TipoSala |-> TipoSala(rooms[r].room_type),
     AndarPreferido |-> courses[d].preferred_floor,
     FloorMatch |-> floor_match(r, d),
     TamanhoTurma |-> courses[d].class_size,
     CapacidadeSala |-> rooms[r].capacity,
     RequerLab |-> courses[d].requires_lab,
     Mismatch |-> \/ (courses[d].requires_lab /\ rooms[r].room_type # LAB)
                  \/ (~courses[d].requires_lab /\ rooms[r].room_type = LAB)]

format_results(xx) ==
    Flatten([d \in 1..NC |->
        Flatten([r \in 1..NR |->
            IF xx[d][r] = 1 THEN <<ResultRow(d, r)>> ELSE <<>>])])

-----------------------------------------------------------------------------
(* ScheduleAnalyzer *)
Column(df, col) == [i \in 1..Len(df) |-> df[i][col]]

\* {course.course_code.split('-')[0]: course for course in courses}: the
\* last course of the list with a base code is the one the dict keeps
original_courses(cs) ==
    [b \in {SplitFirst(cs[i].course_code) : i \in 1..Len(cs)} |->
        cs[MaxOf({i \in 1..Len(cs) : SplitFirst(cs[i].course_code) = b})]]

SectionRecord(row) ==
    [Curso |-> row.Curso, Sala |-> row.Sala,
     TamanhoTurma |-> row.TamanhoTurma, Horario |-> row.Horario]

SplitEntry(df, cs, course_code) ==
    LET base_code == SplitFirst(course_code)
        originals == original_courses(cs)
    IN  IF /\ (Contains(course_code, <<"-", "A">>) \/ Contains(course_code, <<"-", "B">>))
           /\ base_code \in DOMAIN originals
        THEN <<[original_course |-> base_code,
                original_size |-> originals[base_code].class_size,
                split_sections |->
                    LET sel == SelectSeq(df, LAMBDA row : StartsWith(row.Curso, base_code))
                    IN  [i \in 1..Len(sel) |-> SectionRecord(sel[i])]]>>
        ELSE <<>>

analyze_split_classes(df, cs) ==
    LET codes == Unique(Column(df, "Curso"))
    IN  Flatten([i \in 1..Len(codes) |-> SplitEntry(df, cs, codes[i])])

\* groupby(['Sala', 'Dia', 'Horário']): the groups of more than one row
\* (as a set: the order of the groups is the sort order of the keys)
check_time_conflicts(df) ==
    LET keys == {<<df[i].Sala, df[i].Dia, df[i].Horario>> : i \in 1..Len(df)}
        group(k) == SelectSeq(df, LAMBDA row : <<row.Sala, row.Dia, row.Horario>> = k)
    IN  {[sala |-> k[1], dia |-> k[2], horario |-> k[3],
          disciplinas |-> Column(group(k), "Disciplina")] :
            k \in {g \in keys : Len(group(g)) > 1}}

check_capacity_issues(df) ==
    LET over == SelectSeq(df, LAMBDA row : row.TamanhoTurma > row.CapacidadeSala)
    IN  [i \in 1..Len(over) |->
            [disciplina |-> over[i].Disciplina, sala |-> over[i].Sala,
             tamanho_turma |-> over[i].TamanhoTurma,
             capacidade_sala |-> over[i].CapacidadeSala]]

check_room_type_mismatches(df) ==
    LET bad == SelectSeq(df, LAMBDA row : row.Mismatch)
    IN  [i \in 1..Len(bad) |->
            [disciplina |-> bad[i].Disciplina, curso |-> bad[i].Curso,
             sala |-> bad[i].Sala,
             tipo_necessario |-> IF bad[i].RequerLab THEN "laboratório" ELSE "sala regular",
             tipo_alocado |-> IF bad[i].TipoSala = "LAB" THEN "laboratório" ELSE "sala regular",
             dia |-> bad[i].Dia, horario |-> bad[i].Horario]]

\* blocked_rooms = {room.name: room.is_blocked}, then .get(row['Sala'], False)
check_blocked_room_usage(df, rs) ==
    LET names == {rs[i].name : i \in 1..Len(rs)}
        blocked(n) == IF n \in names
                      THEN rs[MaxOf({i \in 1..Len(rs) : rs[i].name = n})].is_blocked
                      ELSE FALSE
        used == SelectSeq(df, LAMBDA row : blocked(row.Sala))
    IN  [i \in 1..Len(used) |->
            [disciplina |-> used[i].Disciplina, sala |-> used[i].Sala,
             dia |-> used[i].Dia, horario |-> used[i].Horario]]

analyze_schedule(df, rs, cs) ==
    [conflicts |-> check_time_conflicts(df),
     capacity_issues |-> check_capacity_issues(df),
     room_mismatches |-> check_room_type_mismatches(df),
     blocked_room_usage |-> check_blocked_room_usage(df, rs),
     split_classes |-> analyze_split_classes(df, cs)]

NoAnalysis ==
    [conflicts |-> {}, capacity_issues |-> <<>>, room_mismatches |-> <<>>,
     blocked_room_usage |-> <<>>, split_classes |-> <<>>]

-----------------------------------------------------------------------------
(* Input files.  Course codes and room names are unique: row i of a file   *)
(* carries the code C<i> (the name R<i>); the other columns come from the  *)
(* profiles below.                                                         *)
Digit == <<"1", "2", "3", "4", "5", "6", "7", "8", "9">>
CodeAt(i) == <<"C", Digit[i]>>
RoomNameAt(i) == <<"R", Digit[i]>>

CourseRow(name, day, time, size, req, floor, weight, auth, profs) ==
    [name |-> <<name>>, day |-> day, time |-> time, class_size |-> size,
     req |-> req, pref_floor |-> floor, course_floor_pref |-> weight,
     split_authorized |-> auth, assigned_professors |-> profs]

RoomRow(type, capacity, floor, blocked) ==
    [type |-> type, capacity |-> capacity, floor |-> floor, is_blocked |-> blocked]

CourseProfiles ==
    { CourseRow("Calc", "Segunda", <<"19h00", "22h30">>, 40, 0, 1, 1, FALSE, <<>>),
      CourseRow("Calc", "Segunda", <<"20h50", "22h30">>, 60, 1, 2, 2, TRUE, <<"Ana">>),
      CourseRow("Alg", "Terça", <<"17h20", "19h00">>, 45, 0, 0, 1, FALSE, <<"Ana", "Rui">>),
      CourseRow("Alg", "Segunda", <<"19h00", "22h30">>, 101, 0, 2, 1, TRUE, <<"Ana", "Rui">>),
      CourseRow("Fis", "Terça", <<"17h20", "19h00">>, 12000, 1, 1, 1, FALSE, <<>>),
      CourseRow("Fis", "Quarta", <<"18h10", "19h50">>, 70, 0, 3, 1, FALSE, <<"Rui">>) }

RoomProfiles ==
    { RoomRow(CLASSROOM, 50, 1, FALSE),
      RoomRow(LAB, 50, 2, FALSE),
      RoomRow(CLASSROOM, 60, 3, TRUE),
      RoomRow(CLASSROOM, 10000, 3, FALSE) }

CourseFiles(profiles, n) ==
    {[i \in 1..n |-> [course |-> CodeAt(i)] @@ f[i]] : f \in [1..n -> profiles]}

RoomFiles(profiles, n) ==
    {[i \in 1..n |-> [name |-> RoomNameAt(i)] @@ f[i]] : f \in [1..n -> profiles]}

\* the slot encoder's inputs: every known label and one unknown of each kind
DayLabels == DOMAIN DAY_TO_BASE_INDEX \cup {"Domingo"}
StartLabels == DOMAIN TIME_TO_INDEX \cup {"08h00"}
EndLabels == {"19h00", "22h30", "23h20"}

SlotProfiles ==
    {CourseRow("Calc", day, <<start, end>>, 30, 0, 1, 1, FALSE, <<>>) :
        day \in DayLabels, start \in StartLabels, end \in EndLabels}

SlotFixedCourse ==
    CourseRow("Alg", "Segunda", <<"17h20", "19h00">>, 30, 0, 1, 1, FALSE, <<>>)

\* the course splitter's inputs: every size around the threshold, with and
\* without authorization, with 0 to 3 instructors
ProfessorLists == {<<>>, <<"Ana">>, <<"Ana", "Rui">>, <<"Ana", "Rui", "Eva">>}

LoadProfiles ==
    {CourseRow("Calc", "Segunda", <<"19h00", "22h30">>, size, 0, 1, 1, auth, profs) :
        size \in 1..MaxLoadSize, auth \in BOOLEAN, profs \in ProfessorLists}

-----------------------------------------------------------------------------
(* State machine: main() *)
InitRest ==
    /\ pc = "start"
    /\ courses = <<>>
    /\ rooms = <<>>
    /\ status = "Not Solved"
    /\ x = <<>>
    /\ schedule = <<>>
    /\ analysis = NoAnalysis

Init ==
    /\ csvCourses \in UNION {CourseFiles(CourseProfiles, n) : n \in 1..MaxCourses}
    /\ csvRooms \in UNION {RoomFiles(RoomProfiles, n) : n \in 1..MaxRooms}
    /\ InitRest

InitSlots ==
    /\ csvCourses \in {<<[course |-> CodeAt(1)] @@ p,
                         [course |-> CodeAt(2)] @@ SlotFixedCourse>> : p \in SlotProfiles}
    /\ csvRooms \in RoomFiles({RoomRow(CLASSROOM, 50, 1, FALSE)}, 1)
    /\ InitRest

InitLoad ==
    /\ csvCourses \in CourseFiles(LoadProfiles, 1)
    /\ csvRooms \in RoomFiles({RoomRow(CLASSROOM, 50, 1, FALSE)}, 2)
    /\ InitRest

\* DataLoader.load_data
LoadData ==
    /\ pc = "start"
    /\ courses' = load_courses(csvCourses)
    /\ rooms' = load_rooms(csvRooms)
    /\ pc' = "loaded"
    /\ UNCHANGED <<csvCourses, csvRooms, status, x, schedule, analysis>>

\* ScheduleOptimizer(courses, rooms)
NewOptimizer ==
    /\ pc = "loaded"
    /\ rooms' = calculate_floor_matches(rooms, courses)
    /\ pc' = "ready"
    /\ UNCHANGED <<csvCourses, csvRooms, courses, status, x, schedule, analysis>>

\* optimize(): the solve ends Optimal, the rows are extracted
OptimizeOptimal ==
    /\ pc = "ready"
    /\ \E xx \in OptimalSet :
        /\ status' = "Optimal"
        /\ x' = xx
        /\ schedule' = format_results(xx)
    /\ pc' = "optimized"
    /\ UNCHANGED <<csvCourses, csvRooms, courses, rooms, analysis>>

\* optimize(): any other status, an empty DataFrame is returned
OptimizeInfeasible ==
    /\ pc = "ready"
    /\ FeasibleSet = {}
    /\ status' = "Infeasible"
    /\ x' = <<>>
    /\ schedule' = <<>>
    /\ pc' = "optimized"
    /\ UNCHANGED <<csvCourses, csvRooms, courses, rooms, analysis>>

\* main(): if not schedule_df.empty
AnalyzeSchedule ==
    /\ pc = "optimized"
    /\ schedule # <<>>
    /\ analysis' = analyze_schedule(schedule, rooms, courses)
    /\ pc' = "done"
    /\ UNCHANGED <<csvCourses, csvRooms, courses, rooms, status, x, schedule>>

\* main(): else branch, "No viable solution found"
NoViableSolution ==
    /\ pc = "optimized"
    /\ schedule = <<>>
    /\ pc' = "done"
    /\ UNCHANGED <<csvCourses, csvRooms, courses, rooms, status, x, schedule, analysis>>

Next ==
    \/ LoadData
    \/ NewOptimizer
    \/ OptimizeOptimal
    \/ OptimizeInfeasible
    \/ AnalyzeSchedule
    \/ NoViableSolution

Spec == Init /\ [][Next]_vars
SpecSlots == InitSlots /\ [][Next]_vars
SpecLoad == InitLoad /\ [][Next]_vars

-----------------------------------------------------------------------------
(* Properties *)
Solved == pc \in {"optimized", "done"}
Built == pc \in {"ready", "optimized", "done"}
Loaded == pc # "start"

RowsOfCourse(d) == {i \in 1..Len(schedule) : schedule[i].Curso = courses[d].course_code}
CourseOfRowAt(i) == CHOOSE d \in 1..NC : courses[d].course_code = schedule[i].Curso
RoomOfRowAt(i) == CHOOSE r \in 1..NR : rooms[r].name = schedule[i].Sala
Unblocked == {r \in 1..NR : ~rooms[r].is_blocked}

\* C1: optimize() is all-or-nothing: under status Optimal the schedule has
\* exactly one row for every course and no other row; under any other
\* status the schedule is empty.
C1_AllOrNothing ==
    Solved =>
        IF status = "Optimal"
        THEN /\ Len(schedule) = NC
             /\ \A d \in 1..NC : Cardinality(RowsOfCourse(d)) = 1
        ELSE schedule = <<>>

C1_Witness ==
    /\ Solved /\ status = "Optimal"
    /\ NC >= 3 /\ NR >= 2
    /\ \E i, j \in 1..Len(schedule) : schedule[i].Sala # schedule[j].Sala

\* C2: no two distinct rows of a schedule are in the same room with
\* occupancy vectors that share a set slot, nor share room, day and time
\* label; two courses with overlapping vectors and at most one unblocked
\* room give a non-optimal status and an empty schedule.
C2_NoDoubleBooking ==
    Solved =>
        /\ \A i, j \in 1..Len(schedule) :
            (i # j /\ schedule[i].Sala = schedule[j].Sala) =>
                /\ ~has_conflict(courses[CourseOfRowAt(i)].time_slots,
                                 courses[CourseOfRowAt(j)].time_slots)
                /\ <<schedule[i].Dia, schedule[i].Horario>> #
                   <<schedule[j].Dia, schedule[j].Horario>>
        /\ ( /\ Cardinality(Unblocked) <= 1
             /\ \E d, e \in 1..NC :
                    d # e /\ has_conflict(courses[d].time_slots, courses[e].time_slots) )
           => (status # "Optimal" /\ schedule = <<>>)

C2_Witness ==
    /\ Solved /\ status = "Optimal"
    /\ \E i, j \in 1..Len(schedule) : i # j /\ schedule[i].Sala = schedule[j].Sala

\* C3: every row has class size <= 1.2 * room capacity; when some course
\* exceeds 1.2 * capacity of every room the result is empty.
C3_CapacityCeiling ==
    Solved =>
        /\ \A i \in 1..Len(schedule) :
            schedule[i].TamanhoTurma * 10 <= schedule[i].CapacidadeSala * 12
        /\ (\E d \in 1..NC : \A r \in 1..NR :
                rooms[r].capacity * 12 < courses[d].class_size * 10)
           => (status # "Optimal" /\ schedule = <<>>)

C3_Witness ==
    /\ Solved /\ status = "Optimal"
    /\ \E i \in 1..Len(schedule) :
        schedule[i].TamanhoTurma > schedule[i].CapacidadeSala

\* C4: no row is in a blocked room; when every room is blocked and there is
\* a course, the result is empty.
C4_NoBlockedRoom ==
    Solved =>
        /\ \A i \in 1..Len(schedule) : ~rooms[RoomOfRowAt(i)].is_blocked
        /\ (NC >= 1 /\ Unblocked = {}) => schedule = <<>>

C4_Witness ==
    /\ Solved /\ status = "Optimal" /\ schedule # <<>>
    /\ \E r \in 1..NR : rooms[r].is_blocked

\* C5: a row with class_size > 50, split-authorized and at least 2
\* instructors is replaced by exactly two sections, -A of size floor(size/2)
\* with only the first instructor and -B of size size - floor(size/2) with
\* only the second, sizes summing to the original, both split and
\* split-authorized, neither eligible for a split; any other row is loaded
\* unchanged as one course.
SectionsOf(i) ==
    {d \in 1..NC : SplitFirst(courses[d].course_code) = csvCourses[i].course}

Inherits(c, row) ==
    /\ c.day = row.day /\ c.time = row.time
    /\ c.requires_lab = (row.req = 1)
    /\ c.preferred_floor = row.pref_floor
    /\ c.floor_preference_weight = row.course_floor_pref

C5_CourseSplitting ==
    Loaded =>
        \A i \in 1..Len(csvCourses) :
            LET row == csvCourses[i]
                size == row.class_size
                profs == row.assigned_professors
            IN  IF size > 50 /\ row.split_authorized /\ Len(profs) >= 2
                THEN /\ Cardinality(SectionsOf(i)) = 2
                     /\ \E a, b \in SectionsOf(i) :
                        /\ b = a + 1
                        /\ courses[a].course_code = row.course \o <<"-", "A">>
                        /\ courses[b].course_code = row.course \o <<"-", "B">>
                        /\ courses[a].class_size = size \div 2
                        /\ courses[b].class_size = size - (size \div 2)
                        /\ courses[a].class_size + courses[b].class_size = size
                        /\ courses[a].assigned_professors = <<profs[1]>>
                        /\ courses[b].assigned_professors = <<profs[2]>>
                        /\ \A s \in {a, b} :
                            /\ courses[s].is_split
                            /\ courses[s].split_authorized
                            /\ ~can_be_split(courses[s])
                            /\ Inherits(courses[s], row)
                ELSE /\ Cardinality(SectionsOf(i)) = 1
                     /\ \A d \in SectionsOf(i) :
                        /\ courses[d].course_code = row.course
                        /\ courses[d].name = row.name
                        /\ courses[d].class_size = size
                        /\ courses[d].assigned_professors = profs
                        /\ courses[d].split_authorized = row.split_authorized
                        /\ ~courses[d].is_split
                        /\ Inherits(courses[d], row)

C5_Witness ==
    /\ Loaded /\ NC = 2
    /\ courses[1].is_split /\ courses[2].is_split
    /\ courses[1].class_size + 1 = courses[2].class_size
    /\ Len(csvCourses[1].assigned_professors) = 3

\* C6: every occupancy vector has length 48 and its set bits are exactly
\* the 4 (range 19h00-22h30) or 2 (any other range) indices that start at
\* base(day) + index(start), unknown labels counting as 0; no bit is lost
\* to the bound check.
KnownDays == <<"Segunda", "Terça", "Quarta", "Quinta", "Sexta", "Sábado">>
KnownTimes == <<"17h20", "18h10", "19h00", "19h50", "20h50", "21h40", "22h30">>
PositionIn(labels, l) ==
    IF \E k \in 1..Len(labels) : labels[k] = l
    THEN (CHOOSE k \in 1..Len(labels) : labels[k] = l) - 1
    ELSE 0
SetBits(slots) == {p \in 1..Len(slots) : slots[p] = 1}

C6_SlotEncoding ==
    Loaded =>
        \A d \in 1..NC :
            LET c == courses[d]
                first == 8 * PositionIn(KnownDays, c.day) + PositionIn(KnownTimes, c.time[1])
                n == IF c.time[1] = "19h00" /\ c.time[2] = "22h30" THEN 4 ELSE 2
            IN  /\ Len(c.time_slots) = 48
                /\ \A p \in 1..48 : c.time_slots[p] \in {0, 1}
                /\ SetBits(c.time_slots) = {first + k : k \in 1..n}
                /\ Cardinality(SetBits(c.time_slots)) = n

C6_Witness ==
    /\ Loaded
    /\ courses[1].day = "Sábado" /\ courses[1].time[1] = "22h30"
    /\ SetBits(courses[1].time_slots) = {47, 48}

\* C7: the floor-match value read for (r, d) is 1 if d has no preferred
\* floor (<= 0) or r is on d's preferred floor, and 0 otherwise, whatever
\* the other courses of the list are.
C7_FloorMatchPure ==
    Built =>
        \A r \in 1..NR : \A d \in 1..NC :
            floor_match(r, d) =
                IF courses[d].preferred_floor <= 0
                   \/ rooms[r].floor = courses[d].preferred_floor
                THEN 1 ELSE 0

\* C8: every split-class entry reports as original_size the size of the
\* original, pre-split course, with the rows of exactly its sections.
C8_SplitReport ==
    pc = "done" =>
        \A k \in 1..Len(analysis.split_classes) :
            LET e == analysis.split_classes[k]
                i == CHOOSE i \in 1..Len(csvCourses) : csvCourses[i].course = e.original_course
                rws == SelectSeq(schedule, LAMBDA row : SplitFirst(row.Curso) = e.original_course)
            IN  /\ e.original_size = csvCourses[i].class_size
                /\ e.original_size = SumSeq(Column(e.split_sections, "TamanhoTurma"))
                /\ e.split_sections = [j \in 1..Len(rws) |-> SectionRecord(rws[j])]

\* C9: the big-M term satisfies the capacity-ceiling row of every unchosen
\* pair, so the model is feasible whenever an assignment puts every course
\* in exactly one unblocked room, without slot overlap in a room and with
\* size <= 1.2 * capacity of the chosen room.
IntendedAssignments ==
    {a \in [1..NC -> Unblocked] :
        /\ \A d \in 1..NC : courses[d].class_size * 10 <= rooms[a[d]].capacity * 12
        /\ \A d, e \in 1..NC :
            (d # e /\ a[d] = a[e]) =>
                ~has_conflict(courses[d].time_slots, courses[e].time_slots)}

C9_BigMDisables ==
    Solved =>
        /\ \A d \in 1..NC : \A r \in 1..NR : CapacityCeiling(d, r, 0)
        /\ IntendedAssignments # {} => status = "Optimal"

\* C10: a course without floor preference (preferred_floor <= 0) has the
\* same, zero, floor-related cost (floor_pref term plus distance weight
\* times the least feasible y[d]) in every room.
OnlyIn(r) == [d \in 1..NC |-> [q \in 1..NR |-> IF q = r THEN 1 ELSE 0]]
FloorCost(d, r) ==
    W_FLOOR_PREF * FloorPrefTerm(OnlyIn(r), d) + W_DISTANCE * y_min(OnlyIn(r), d)

C10_NoPreferenceNoCost ==
    Built =>
        \A d \in 1..NC :
            courses[d].preferred_floor <= 0 =>
                \A r \in 1..NR : FloorCost(d, r) = 0

=============================================================================
